---- MODULE Spec2Model ----
(***************************************************************************)
(* Deep-Research orchestrator, DeepResearchLangGraph                       *)
(* (src/04_Production_RAG/langgraph_deep_research.py).                     *)
(*                                                                         *)
(* One conduct_research session is a walk over the compiled StateGraph:    *)
(*   planner -> searcher -> analyzer -> synthesizer -> reporter            *)
(*   reporter -(_should_iterate)-> iterator | END                          *)
(*   iterator -> searcher                                                  *)
(* Every node is one action (a node holds one suspension point, the Oracle *)
(* or vector-store call, and the graph runs one node at a time).  An       *)
(* exception that leaves a node leaves graph.ainvoke and is handled by the *)
(* except clause of conduct_research in the same step.                     *)
(*                                                                         *)
(* Texts (query, report, error message) are sequences of tokens, so that   *)
(* the empty string is <<>> and concatenation is \o.  A parsed JSON value  *)
(* is a record with a field kind: "dict" for a JSON object (the other      *)
(* fields are its keys) and "nonobj" for any other JSON value (list,       *)
(* number, string, null), on which dict methods raise AttributeError.      *)
(* The text of a trace message is reduced to its template.                 *)
(*                                                                         *)
(* The graph runtime is taken to run the graph as _build_graph declares    *)
(* it: the caller's config gives the checkpointer its thread_id, and the   *)
(* runtime's recursion limit is above the 5 * max_iterations + 10 steps a  *)
(* session can take.                                                       *)
(***************************************************************************)
EXTENDS Integers, Sequences, FiniteSets, TLC

VARIABLES
    llm,               \* self.llm: "ChatOpenAI", or "None" without an API key
    vectorstore,       \* self.vectorstore: [present, docs]
    research_history,  \* self.research_history
    pc,                \* position of the session in the graph
    state,             \* the session's ResearchState
    result,            \* what conduct_research returned
    exc,               \* the exception that ended the session, if any
    runs,              \* how many times each node has been entered
    last,              \* per node, what its most recent Oracle/store call did
    decisions,         \* what Iterate-Decide has met so far in the session
    oracle,            \* the Oracle calls made: their number and the last response
    conc,              \* two sessions interleaved on one orchestrator (ConcSpec)
    drs,               \* a DeepResearchSystem and its conduct_research calls (DrsSpec)
    guard              \* one run of the guardrailed agent graph (GuardSpec)

vars == <<llm, vectorstore, research_history, pc, state, result, exc, runs, last,
          decisions, oracle, conc, drs, guard>>

------------------------------------------------------------------------------
(* Bounds of the model *)

\* largest max_iterations argument passed to conduct_research
MaxIter == 2

\* the seconds the wall clock passes through in DrsSpec: 0..MaxClock
MaxClock == 1

(* Program constants *)

\* sub_questions[:3] in _simulate_web_search
SubQueryLimit == 3

\* as_retriever(search_kwargs={"k": 5}) in _analyzing_node
RetrieverK == 5

\* str(e)[:100] in input_validation_node and output_validation_node
FailureTextLimit == 100

\* last_message.content[:50] in agent_node
AgentEchoLimit == 50

------------------------------------------------------------------------------
(* Inputs *)

Queries == { <<>>, <<"q">> }

\* str(e) of an exception raised by an Oracle call; TimeoutError() has str ""
ErrMsgs == { <<>>, <<"Request timed out.">> }

Nodes == {"planner", "searcher", "analyzer", "synthesizer", "reporter", "iterator"}

NonObject == [kind |-> "nonobj"]

IsDict(v) == v.kind = "dict"

\* dict.get(k, default)
Get(d, k, default) == IF k \in DOMAIN d THEN d[k] ELSE default

\* d[k] = v
SetKey(d, k, v) == [x \in (DOMAIN d) \cup {k} |-> IF x = k THEN v ELSE d[x]]

EmptyDict == [kind |-> "dict"]

\* JSON the Oracle may return at Plan
PlanAnswers ==
    { [kind |-> "dict", sub_questions |-> sq] :
        sq \in { <<>>, << <<"a">>, <<"b">>, <<"c">>, <<"d">> >> } }
    \cup { NonObject }

\* JSON the Oracle may return at Analyze
AnalysisAnswers ==
    { [kind |-> "dict", key_facts |-> << <<"fact">> >>, overall_quality |-> "High"],
      NonObject }

\* JSON the Oracle may return at Synthesize
SynthesisAnswers ==
    { [kind |-> "dict", key_insights |-> << <<"insight">> >>, confidence_level |-> "High"],
      NonObject }

\* text the Oracle may return at Report
ReportTexts == { <<>>, <<"report">> }

\* JSON the Oracle may return at Iterate-Decide
IterationAnswers ==
    { [kind |-> "dict", needs_more_research |-> TRUE],
      [kind |-> "dict", needs_more_research |-> TRUE, additional_queries |-> << <<"x">> >>],
      [kind |-> "dict", needs_more_research |-> FALSE],
      EmptyDict,
      NonObject }

------------------------------------------------------------------------------
(* Fallback structures of the nodes *)

DefaultPlanDropsEmptyQuery(query) ==
    [kind |-> "dict",
     sub_questions |-> IF query = <<>> THEN <<>> ELSE << query >>,
     key_areas |-> << <<"general information">> >>,
     search_strategies |-> << <<"web search">>, <<"academic sources">> >>,
     sources_to_check |-> << <<"websites">>, <<"papers">>, <<"reports">> >>,
     estimated_complexity |-> "Medium",
     research_depth |-> "Deep"]

DefaultPlan(query) ==
    [kind |-> "dict",
     sub_questions |-> << query >>,
     key_areas |-> << <<"general information">> >>,
     search_strategies |-> << <<"web search">>, <<"academic sources">> >>,
     sources_to_check |-> << <<"websites">>, <<"papers">>, <<"reports">> >>,
     estimated_complexity |-> "Medium",
     research_depth |-> "Deep"]

DefaultAnalysis ==
    [kind |-> "dict",
     source_evaluations |-> <<>>,
     key_facts |-> << <<"Analysis failed to parse">> >>,
     insights |-> << <<"Unable to extract insights">> >>,
     contradictions |-> <<>>,
     gaps |-> << <<"Analysis incomplete">> >>,
     overall_quality |-> "Unknown"]

DefaultSynthesis ==
    [kind |-> "dict",
     key_insights |-> << <<"Synthesis failed to parse">> >>,
     patterns |-> <<>>,
     implications |-> <<>>,
     recommendations |-> <<>>,
     further_research |-> <<>>,
     confidence_level |-> "Low"]

DefaultDecision ==
    [kind |-> "dict",
     needs_more_research |-> FALSE,
     reasoning |-> <<"Unable to parse iteration decision">>,
     additional_queries |-> <<>>]

\* f"Report generation failed: {str(e)}"
ReportFailure(msg) == <<"Report generation failed: ">> \o msg

\* f"Research failed: {str(e)}"
ResearchFailure(msg) == <<"Research failed: ">> \o msg

------------------------------------------------------------------------------
(* Oracle and exceptions *)

\* What one Oracle call (chain.ainvoke) can do: return text that json.loads
\* parses to one of `answers`, return text json.loads rejects, or raise.
OracleResponses(answers) ==
    { [out |-> "text", json |-> a] : a \in answers }
    \cup { [out |-> "unparsable"] }
    \cup { [out |-> "raise", msg |-> m] : m \in ErrMsgs }

\* What the Report call can do: return the report text, or raise.
ReportResponses ==
    { [out |-> "text", text |-> t] : t \in ReportTexts }
    \cup { [out |-> "raise", msg |-> m] : m \in ErrMsgs }

NoExc == [type |-> "none", msg |-> <<>>]
OracleError(m) == [type |-> "OracleError", msg |-> m]
StoreError == [type |-> "StoreError", msg |-> <<"vector store unavailable">>]
JSONDecodeError == [type |-> "JSONDecodeError", msg |-> <<"Expecting value">>]
AttributeError == [type |-> "AttributeError", msg |-> <<"object has no attribute 'get'">>]
TypeError == [type |-> "TypeError", msg |-> <<"Expected a Runnable, callable or dict">>]

Returned(v) == [raised |-> FALSE, value |-> v]
Raised(e) == [raised |-> TRUE, exc |-> e]

\* the label under which `last` records a response
Outcome(resp) ==
    CASE resp.out = "raise" -> "raise"
      [] resp.out = "unparsable" -> "bad"
      [] resp.out = "text" /\ "json" \in DOMAIN resp /\ ~IsDict(resp.json) -> "nonobj"
      [] OTHER -> "ok"

------------------------------------------------------------------------------
(* The try/except blocks of the nodes *)

PlanningTryEmptyPlan(resp, query) ==
    CASE resp.out = "raise" -> Raised(OracleError(resp.msg))
      [] resp.out = "unparsable" -> Returned(EmptyDict)
      [] OTHER -> Returned(resp.json)

PlanningTryNoFallback(resp, query) ==
    CASE resp.out = "raise" -> Raised(OracleError(resp.msg))
      [] resp.out = "unparsable" -> Raised(JSONDecodeError)
      [] OTHER -> Returned(resp.json)

\* try: json.loads(await planning_chain.ainvoke(..)) except json.JSONDecodeError
PlanningTry(resp, query) ==
    CASE resp.out = "raise" -> Raised(OracleError(resp.msg))
      [] resp.out = "unparsable" -> Returned(DefaultPlan(query))
      [] OTHER -> Returned(resp.json)

\* try: json.loads(await analysis_chain.ainvoke(..)) except json.JSONDecodeError
AnalyzingTry(resp) ==
    CASE resp.out = "raise" -> Raised(OracleError(resp.msg))
      [] resp.out = "unparsable" -> Returned(DefaultAnalysis)
      [] OTHER -> Returned(resp.json)

\* try: json.loads(await synthesis_chain.ainvoke(..)) except json.JSONDecodeError
SynthesizingTry(resp) ==
    CASE resp.out = "raise" -> Raised(OracleError(resp.msg))
      [] resp.out = "unparsable" -> Returned(DefaultSynthesis)
      [] OTHER -> Returned(resp.json)

ReportingTryEmptyIsFailure(resp) ==
    CASE resp.out = "raise" -> Returned(ReportFailure(resp.msg))
      [] resp.text = <<>> -> Returned(ReportFailure(<<>>))
      [] OTHER -> Returned(resp.text)

\* try: await reporting_chain.ainvoke(..) except Exception as e
ReportingTry(resp) ==
    CASE resp.out = "raise" -> Returned(ReportFailure(resp.msg))
      [] OTHER -> Returned(resp.text)

IteratingTryFailOpen(resp) ==
    CASE resp.out = "raise" -> Raised(OracleError(resp.msg))
      [] resp.out = "unparsable" ->
            Returned([DefaultDecision EXCEPT !.needs_more_research = TRUE])
      [] OTHER -> Returned(resp.json)

\* try: json.loads(await iteration_chain.ainvoke(..)) except json.JSONDecodeError
IteratingTry(resp) ==
    CASE resp.out = "raise" -> Raised(OracleError(resp.msg))
      [] resp.out = "unparsable" -> Returned(DefaultDecision)
      [] OTHER -> Returned(resp.json)

------------------------------------------------------------------------------
(* _simulate_web_search *)

Min(a, b) == IF a < b THEN a ELSE b

SourceTypes == <<"academic", "industry", "news">>
TitlePrefix == <<"Research Article: ", "Industry Report: ", "News Article: ">>
\* relevance scores 0.95, 0.88, 0.82 in hundredths; each drops 0.1 per sub-query
BaseScore == <<95, 88, 82>>

MockResult(sub_query, i, t) ==
    [title |-> <<TitlePrefix[t]>> \o sub_query,
     content |-> sub_query,
     index |-> i,
     relevance_score |-> BaseScore[t] - (i * 10),
     source_type |-> SourceTypes[t]]

SimulateWebSearchAdditionalFirst(query, research_plan) ==
    LET sub_questions ==
            Get(research_plan, "additional_queries",
                Get(research_plan, "sub_questions", << query >>))
        n == Min(SubQueryLimit, Len(sub_questions))
    IN  [j \in 1..(3 * n) |->
            MockResult(sub_questions[((j - 1) \div 3) + 1], (j - 1) \div 3, ((j - 1) % 3) + 1)]

\* research_plan must be a dict here; three results per sub-query, for the
\* first SubQueryLimit sub-queries
SimulateWebSearch(query, research_plan) ==
    LET sub_questions == Get(research_plan, "sub_questions", << query >>)
        n == Min(SubQueryLimit, Len(sub_questions))
    IN  [j \in 1..(3 * n) |->
            MockResult(sub_questions[((j - 1) \div 3) + 1], (j - 1) \div 3, ((j - 1) % 3) + 1)]

------------------------------------------------------------------------------
(* conduct_research: state construction and result assembly *)

EmptyList == [kind |-> "list"]

\* ResearchState(...) built by conduct_research
InitialState(query, max_iterations) ==
    [messages |-> << "HumanMessage: query" >>,
     query |-> query,
     research_plan |-> EmptyDict,
     search_results |-> <<>>,
     analysis_results |-> EmptyList,
     synthesis |-> EmptyDict,
     final_report |-> <<>>,
     current_phase |-> "planning",
     iteration_count |-> 0,
     max_iterations |-> max_iterations,
     research_complete |-> FALSE]

NoResult == [status |-> "none"]

\* the dict built from final_state when graph.ainvoke returns
CompletedResult(final_state) ==
    [query |-> final_state.query,
     final_report |-> final_state.final_report,
     research_plan |-> final_state.research_plan,
     search_results |-> final_state.search_results,
     analysis_results |-> final_state.analysis_results,
     synthesis |-> final_state.synthesis,
     iteration_count |-> final_state.iteration_count,
     messages |-> final_state.messages,
     status |-> "completed"]

\* the dict built by the except clause
FailedResult(query, e) ==
    [query |-> query,
     final_report |-> ResearchFailure(e.msg),
     status |-> "failed",
     error |-> e.msg]

\* the result an earlier session on the same orchestrator completed with: its
\* plan had no sub-questions, so it stored nothing in the vector store
PriorResult ==
    CompletedResult(
        [InitialState(<<"q">>, 0) EXCEPT
            !.research_plan = [kind |-> "dict", sub_questions |-> <<>>],
            !.analysis_results = DefaultAnalysis,
            !.synthesis = DefaultSynthesis,
            !.final_report = <<"report">>,
            !.current_phase = "reporting",
            !.research_complete = TRUE,
            !.messages = << "HumanMessage: query", "Research plan created", "Found sources",
                            "Analysis completed", "Synthesis completed",
                            "Final report generated", "Found sources", "Analysis completed",
                            "Synthesis completed", "Final report generated" >>])

\* self.research_history when the session starts: empty on a new
\* orchestrator, or holding the results of earlier sessions
PriorHistories == { <<>>, << PriorResult >> }

CaughtOnlyOracleError(e) == e.type = "OracleError"

\* except Exception as e: every exception a node raises here derives from
\* Exception
Caught(e) == e.type \in {"OracleError", "StoreError", "JSONDecodeError",
                         "AttributeError", "TypeError"}

\* _should_iterate
ShouldIterate(st) == IF st.research_complete THEN "complete" ELSE "iterate"

CeilingReachedOffByOne(st) == st.iteration_count > st.max_iterations

CeilingNeverReached(st) == FALSE

\* if iteration_count >= max_iterations
CeilingReached(st) == st.iteration_count >= st.max_iterations

NextIterationCountSkips(iteration_count) == iteration_count + 2

\* iteration_count + 1
NextIterationCount(iteration_count) == iteration_count + 1

------------------------------------------------------------------------------
(* Steps shared by the nodes *)

Enter(node, outcome) ==
    /\ UNCHANGED <<conc, drs, guard>>
    /\ runs' = [runs EXCEPT ![node] = @ + 1]
    /\ last' = [last EXCEPT ![node] = outcome]
    /\ decisions' = IF node = "iterator" THEN decisions \cup {outcome} ELSE decisions

\* the node awaits chain.ainvoke and gets resp
Ask(resp) == oracle' = [calls |-> oracle.calls + 1, resp |-> resp]

\* the node makes no Oracle call
NoAsk == UNCHANGED oracle

EdgeIteratorToReporter(node) ==
    CASE node = "planner" -> "searcher"
      [] node = "searcher" -> "analyzer"
      [] node = "analyzer" -> "synthesizer"
      [] node = "synthesizer" -> "reporter"
      [] node = "iterator" -> "reporter"

EdgeSkipsAnalyzer(node) ==
    CASE node = "planner" -> "searcher"
      [] node = "searcher" -> "synthesizer"
      [] node = "analyzer" -> "synthesizer"
      [] node = "synthesizer" -> "reporter"
      [] node = "iterator" -> "searcher"

\* workflow.add_edge(node, ...)
Edge(node) ==
    CASE node = "planner" -> "searcher"
      [] node = "searcher" -> "analyzer"
      [] node = "analyzer" -> "synthesizer"
      [] node = "synthesizer" -> "reporter"
      [] node = "iterator" -> "searcher"

\* an exception leaves the node with the ResearchState as st: it leaves
\* graph.ainvoke and reaches the except clause of conduct_research
Throw(e, st) ==
    /\ exc' = e
    /\ state' = st
    /\ IF Caught(e)
       THEN /\ result' = FailedResult(st.query, e)
            /\ pc' = "returned"
       ELSE /\ result' = result
            /\ pc' = "propagated"
    /\ UNCHANGED research_history

\* the node returns st and the graph moves on to `next`
Goto(next, st) ==
    /\ state' = st
    /\ pc' = next
    /\ UNCHANGED <<result, exc, research_history>>

FinishOverwritesHistory(st) ==
    /\ state' = st
    /\ result' = CompletedResult(st)
    /\ research_history' = << CompletedResult(st) >>
    /\ pc' = "returned"
    /\ UNCHANGED exc

\* the graph reaches END: graph.ainvoke returns st, conduct_research builds
\* the result and stores it in the history
Finish(st) ==
    /\ state' = st
    /\ result' = CompletedResult(st)
    /\ research_history' = Append(research_history, CompletedResult(st))
    /\ pc' = "returned"
    /\ UNCHANGED exc

------------------------------------------------------------------------------
(* The retriever over the shared vector store *)

\* the elements of seq at the positions in I, in order
Pick(seq, I) ==
    LET F[i \in 0..Len(seq)] ==
            IF i = 0 THEN <<>>
            ELSE IF i \in I THEN Append(F[i - 1], seq[i]) ELSE F[i - 1]
    IN  F[Len(seq)]

\* retriever.get_relevant_documents(query): the k documents of the store
\* nearest to the query, all of them when the store holds no more than k.
\* Which k the embedding ranks first is not fixed here: any k may come back.
Retrievals(docs, k) ==
    { Pick(docs, I) : I \in { J \in SUBSET (1..Len(docs)) : Cardinality(J) = Min(k, Len(docs)) } }

\* the two sessions of ConcSpec
Sessions == {1, 2}

\* the most documents the shared store holds in ConcSpec: a search that would
\* exceed it is not explored
MaxStore == 6

ConcIdle ==
    [pc |-> [s \in Sessions |-> "idle"],
     state |-> [s \in Sessions |-> InitialState(<<>>, 0)],
     store |-> <<>>,
     analysis_input |-> [s \in Sessions |-> <<>>],
     history |-> <<>>]

\* the conduct_research calls of DrsSpec
DrsCalls == {1, 2}

\* ResearchTask as the dataclass builds it; a call that has not started holds
\* this placeholder
DrsNoTask ==
    [id |-> <<>>, query |-> <<>>, phase |-> "planning", sources |-> <<>>,
     findings |-> <<>>, status |-> "none"]

\* DeepResearchSystem.__init__: no active research, empty history
DrsIdle ==
    [clock |-> 0,
     pc |-> [c \in DrsCalls |-> "idle"],
     task |-> [c \in DrsCalls |-> DrsNoTask],
     active_research |-> <<>>,
     research_history |-> <<>>,
     result |-> [c \in DrsCalls |-> NoResult],
     exc |-> [c \in DrsCalls |-> NoExc],
     last |-> [c \in DrsCalls |-> "none"]]

\* the guardrailed agent graph before app.invoke
GuardIdle ==
    [pc |-> "idle",
     state |-> [messages |-> <<>>,
                input_validation_passed |-> FALSE,
                output_validation_passed |-> FALSE,
                guard_failures |-> <<>>,
                loop_count |-> 0],
     path |-> <<>>,
     recorded |-> <<>>]

------------------------------------------------------------------------------
(* Initial state and actions *)

Init ==
    /\ llm \in {"None", "ChatOpenAI"}
    /\ vectorstore = [present |-> (llm # "None"), docs |-> <<>>]
    /\ research_history \in PriorHistories
    /\ (llm = "None" => research_history = <<>>)
    /\ pc = "idle"
    /\ state = InitialState(<<>>, 0)
    /\ result = NoResult
    /\ exc = NoExc
    /\ runs = [n \in Nodes |-> 0]
    /\ last = [n \in Nodes |-> "none"]
    /\ decisions = {}
    /\ oracle = [calls |-> 0, resp |-> [out |-> "none"]]
    /\ conc = ConcIdle
    /\ drs = DrsIdle
    /\ guard = GuardIdle

\* conduct_research(query, max_iterations): the graph starts at its entry
\* point, the planner
ConductResearch ==
    /\ pc = "idle"
    /\ \E query \in Queries, max_iterations \in 0..MaxIter :
          state' = InitialState(query, max_iterations)
    /\ pc' = "planner"
    /\ UNCHANGED <<llm, vectorstore, research_history, result, exc, runs, last, decisions,
                   oracle, conc, drs, guard>>

PlanningNode ==
    /\ pc = "planner"
    /\ UNCHANGED <<llm, vectorstore>>
    /\ \/ /\ llm = "None"
          \* planning_prompt | self.llm with self.llm None
          /\ Enter("planner", "nollm")
          /\ NoAsk
          /\ Throw(TypeError, state)
       \/ /\ llm # "None"
          /\ \E resp \in OracleResponses(PlanAnswers) :
                LET t == PlanningTry(resp, state.query) IN
                /\ Enter("planner", Outcome(resp))
                /\ Ask(resp)
                /\ IF t.raised
                   THEN Throw(t.exc, state)
                   ELSE Goto(Edge("planner"),
                             [state EXCEPT !.research_plan = t.value,
                                           !.current_phase = "planning",
                                           !.messages = Append(@, "Research plan created")])

SearchingNode ==
    /\ pc = "searcher"
    /\ UNCHANGED llm
    /\ NoAsk
    /\ IF ~IsDict(state.research_plan)
       THEN \* research_plan.get in _simulate_web_search
            /\ Enter("searcher", "attr")
            /\ Throw(AttributeError, state)
            /\ UNCHANGED vectorstore
       ELSE LET search_results == SimulateWebSearch(state.query, state.research_plan)
                st == [state EXCEPT !.search_results = search_results,
                                    !.current_phase = "searching",
                                    !.messages = Append(@, "Found sources")]
            IN  \/ /\ Enter("searcher", "ok")
                   /\ vectorstore' =
                        IF Len(search_results) > 0
                        THEN [vectorstore EXCEPT !.docs = @ \o search_results]
                        ELSE vectorstore
                   /\ Goto(Edge("searcher"), st)
                \/ \* self.vectorstore.add_documents raises
                   /\ Len(search_results) > 0
                   /\ Enter("searcher", "storefail")
                   /\ UNCHANGED vectorstore
                   /\ Throw(StoreError, state)

AnalyzingNode ==
    /\ pc = "analyzer"
    /\ UNCHANGED <<llm, vectorstore>>
    /\ \/ \* retriever.get_relevant_documents raises
          /\ Enter("analyzer", "storefail")
          /\ NoAsk
          /\ Throw(StoreError, state)
       \/ \E resp \in OracleResponses(AnalysisAnswers) :
             LET t == AnalyzingTry(resp) IN
             /\ Enter("analyzer", Outcome(resp))
             /\ Ask(resp)
             /\ IF t.raised
                THEN Throw(t.exc, state)
                ELSE LET st == [state EXCEPT !.analysis_results = t.value,
                                             !.current_phase = "analyzing"]
                     IN  IF ~IsDict(t.value)
                         THEN \* analysis_results.get while the message is built
                              Throw(AttributeError, st)
                         ELSE Goto(Edge("analyzer"),
                                   [st EXCEPT !.messages = Append(@, "Analysis completed")])

SynthesizingNode ==
    /\ pc = "synthesizer"
    /\ UNCHANGED <<llm, vectorstore>>
    /\ \E resp \in OracleResponses(SynthesisAnswers) :
          LET t == SynthesizingTry(resp) IN
          /\ Enter("synthesizer", Outcome(resp))
          /\ Ask(resp)
          /\ IF t.raised
             THEN Throw(t.exc, state)
             ELSE LET st == [state EXCEPT !.synthesis = t.value,
                                          !.current_phase = "synthesizing"]
                  IN  IF ~IsDict(t.value)
                      THEN \* synthesis.get while the message is built
                           Throw(AttributeError, st)
                      ELSE Goto(Edge("synthesizer"),
                                [st EXCEPT !.messages = Append(@, "Synthesis completed")])

ReportingNodeMarksComplete ==
    /\ pc = "reporter"
    /\ UNCHANGED <<llm, vectorstore>>
    /\ \E resp \in ReportResponses :
          LET t == ReportingTry(resp)
              st == [state EXCEPT !.final_report = t.value,
                                  !.current_phase = "reporting",
                                  !.research_complete = TRUE,
                                  !.messages = Append(@, "Final report generated")]
          IN  /\ Enter("reporter", Outcome(resp))
              /\ Ask(resp)
              /\ IF ShouldIterate(st) = "complete"
                 THEN Finish(st)
                 ELSE Goto("iterator", st)

ReportingNode ==
    /\ pc = "reporter"
    /\ UNCHANGED <<llm, vectorstore>>
    /\ \E resp \in ReportResponses :
          LET t == ReportingTry(resp)
              st == [state EXCEPT !.final_report = t.value,
                                  !.current_phase = "reporting",
                                  !.messages = Append(@, "Final report generated")]
          IN  /\ Enter("reporter", Outcome(resp))
              /\ Ask(resp)
              \* the conditional edge of the reporter
              /\ IF ShouldIterate(st) = "complete"
                 THEN Finish(st)
                 ELSE Goto("iterator", st)

IterationUpdateExtendsSubQuestions(st, iteration_decision) ==
    IF Get(iteration_decision, "needs_more_research", FALSE)
    THEN LET additional_queries == Get(iteration_decision, "additional_queries", <<>>)
             research_plan == st.research_plan
             extended ==
                 IF Len(additional_queries) > 0
                 THEN SetKey(research_plan, "sub_questions",
                             Get(research_plan, "sub_questions", << st.query >>)
                                 \o additional_queries)
                 ELSE research_plan
         IN  [st EXCEPT !.research_plan = extended,
                        !.messages = Append(@, "Additional research needed")]
    ELSE [st EXCEPT !.research_complete = TRUE,
                    !.messages = Append(@, "Research iteration complete")]

\* the state updates of _iterating_node once the decision is a dict
IterationUpdate(st, iteration_decision) ==
    IF Get(iteration_decision, "needs_more_research", FALSE)
    THEN LET additional_queries == Get(iteration_decision, "additional_queries", <<>>)
             research_plan == st.research_plan
             extended ==
                 IF Len(additional_queries) > 0
                 THEN SetKey(research_plan, "additional_queries",
                             Get(research_plan, "additional_queries", <<>>)
                                 \o additional_queries)
                 ELSE research_plan
         IN  [st EXCEPT !.research_plan = extended,
                        !.messages = Append(@, "Additional research needed")]
    ELSE [st EXCEPT !.research_complete = TRUE,
                    !.messages = Append(@, "Research iteration complete")]

\* the label under which `decisions` records an Iterate-Decide response
IterOutcome(resp) ==
    IF Outcome(resp) = "ok"
    THEN IF Get(resp.json, "needs_more_research", FALSE) THEN "more" ELSE "stop"
    ELSE Outcome(resp)

IteratingNodeOracleFirst ==
    /\ pc = "iterator"
    /\ UNCHANGED <<llm, vectorstore>>
    /\ \E resp \in OracleResponses(IterationAnswers) :
          LET t == IteratingTry(resp) IN
          /\ Ask(resp)
          /\ IF t.raised
             THEN Enter("iterator", IterOutcome(resp)) /\ Throw(t.exc, state)
             ELSE IF CeilingReached(state)
             THEN /\ Enter("iterator", "ceiling")
                  /\ Goto(Edge("iterator"), [state EXCEPT !.research_complete = TRUE,
                                                    !.current_phase = "reporting"])
             ELSE LET st == [state EXCEPT
                                !.iteration_count = NextIterationCount(state.iteration_count),
                                !.current_phase = "iterating"]
                  IN  /\ Enter("iterator", IterOutcome(resp))
                      /\ IF ~IsDict(t.value)
                         THEN Throw(AttributeError, st)
                         ELSE Goto(Edge("iterator"), IterationUpdate(st, t.value))

IteratingNode ==
    /\ pc = "iterator"
    /\ UNCHANGED <<llm, vectorstore>>
    /\ IF CeilingReached(state)
       THEN /\ Enter("iterator", "ceiling")
            /\ NoAsk
            /\ Goto(Edge("iterator"), [state EXCEPT !.research_complete = TRUE,
                                              !.current_phase = "reporting"])
       ELSE \E resp \in OracleResponses(IterationAnswers) :
               LET t == IteratingTry(resp) IN
               /\ Enter("iterator", IterOutcome(resp))
               /\ Ask(resp)
               /\ IF t.raised
                  THEN Throw(t.exc, state)
                  ELSE LET st == [state EXCEPT
                                     !.iteration_count = NextIterationCount(state.iteration_count),
                                     !.current_phase = "iterating"]
                       IN  IF ~IsDict(t.value)
                           THEN \* iteration_decision.get
                                Throw(AttributeError, st)
                           ELSE \* the edge iterator -> searcher
                                Goto(Edge("iterator"), IterationUpdate(st, t.value))

Next ==
    \/ ConductResearch
    \/ PlanningNode
    \/ SearchingNode
    \/ AnalyzingNode
    \/ SynthesizingNode
    \/ ReportingNode
    \/ IteratingNode

Spec == Init /\ [][Next]_vars

\* the graph runtime runs the next node as soon as the previous one returned,
\* and every Oracle / vector-store call returns or raises
FairSpec == Spec /\ WF_vars(Next)

------------------------------------------------------------------------------
(* Two sessions on one orchestrator.  Each conduct_research call has its own *)
(* ResearchState; self.vectorstore and self.research_history are the         *)
(* orchestrator's.  The sessions interleave at the awaits of the nodes: a    *)
(* node runs up to its Oracle call in one step, and Analyze, whose vector-   *)
(* store read precedes its await, is split at the await.  The Oracle is a    *)
(* stub that answers every call; both calls use max_iterations = 0.          *)

\* the Oracle's Plan answers in ConcSpec
ConcPlanResponses ==
    { [out |-> "unparsable"],
      [out |-> "text", json |-> [kind |-> "dict", sub_questions |-> <<>>]] }

ConcAnalysisResponse ==
    [out |-> "text",
     json |-> [kind |-> "dict", key_facts |-> << <<"fact">> >>, overall_quality |-> "High"]]

ConcSynthesisResponse ==
    [out |-> "text",
     json |-> [kind |-> "dict", key_insights |-> << <<"insight">> >>, confidence_level |-> "High"]]

ConcReportResponse == [out |-> "text", text |-> <<"report">>]

\* a session's step touches only conc
ConcFrame ==
    UNCHANGED <<llm, vectorstore, research_history, pc, state, result, exc, runs, last,
                decisions, oracle, drs, guard>>

ConcStep(s, next, st) ==
    /\ ConcFrame
    /\ conc' = [conc EXCEPT !.pc[s] = next, !.state[s] = st]

\* the documents session s has put into the store
OwnDocs(s) ==
    LET own == SelectSeq(conc.store, LAMBDA d : d.owner = s)
    IN  [i \in 1..Len(own) |-> own[i].doc]

AllDocs == [i \in 1..Len(conc.store) |-> conc.store[i].doc]

ConcConductResearch(s) ==
    /\ conc.pc[s] = "idle"
    /\ \E query \in Queries :
          /\ \A o \in Sessions \ {s} : conc.pc[o] # "idle" => conc.state[o].query # query
          /\ ConcStep(s, "planner", InitialState(query, 0))

ConcPlanning(s) ==
    /\ conc.pc[s] = "planner"
    /\ \E resp \in ConcPlanResponses :
          LET t == PlanningTry(resp, conc.state[s].query) IN
          ConcStep(s, Edge("planner"),
                   [conc.state[s] EXCEPT !.research_plan = t.value,
                                         !.current_phase = "planning",
                                         !.messages = Append(@, "Research plan created")])

ConcSearching(s) ==
    /\ conc.pc[s] = "searcher"
    /\ LET st == conc.state[s]
           search_results == SimulateWebSearch(st.query, st.research_plan)
           documents == [i \in 1..Len(search_results) |->
                            [doc |-> search_results[i], owner |-> s]]
       IN  /\ Len(conc.store) + Len(documents) <= MaxStore
           /\ ConcFrame
           /\ conc' = [conc EXCEPT
                      !.store = @ \o documents,
                      !.pc[s] = Edge("searcher"),
                      !.state[s] = [st EXCEPT !.search_results = search_results,
                                              !.current_phase = "searching",
                                              !.messages = Append(@, "Found sources")]]

\* _analyzing_node up to await analysis_chain.ainvoke: the retriever is read
\* and the prompt is built from query, search_results and relevant_docs
ConcAnalyzingCall(s) ==
    /\ conc.pc[s] = "analyzer"
    /\ ConcFrame
    /\ \E relevant_docs \in Retrievals(AllDocs, RetrieverK) :
          conc' = [conc EXCEPT
                     !.pc[s] = "analyzer_await",
                     !.analysis_input[s] =
                         << [query |-> conc.state[s].query,
                             search_results |-> conc.state[s].search_results,
                             relevant_docs |-> relevant_docs] >>]

\* _analyzing_node from the Oracle's answer on
ConcAnalyzingReturn(s) ==
    /\ conc.pc[s] = "analyzer_await"
    /\ ConcFrame
    /\ LET t == AnalyzingTry(ConcAnalysisResponse) IN
       conc' = [conc EXCEPT
                  !.pc[s] = Edge("analyzer"),
                  !.analysis_input[s] = <<>>,
                  !.state[s] = [@ EXCEPT !.analysis_results = t.value,
                                         !.current_phase = "analyzing",
                                         !.messages = Append(@, "Analysis completed")]]

ConcSynthesizing(s) ==
    /\ conc.pc[s] = "synthesizer"
    /\ LET t == SynthesizingTry(ConcSynthesisResponse) IN
       ConcStep(s, Edge("synthesizer"),
                [conc.state[s] EXCEPT !.synthesis = t.value,
                                      !.current_phase = "synthesizing",
                                      !.messages = Append(@, "Synthesis completed")])

ConcReporting(s) ==
    /\ conc.pc[s] = "reporter"
    /\ LET t == ReportingTry(ConcReportResponse)
           st == [conc.state[s] EXCEPT !.final_report = t.value,
                                       !.current_phase = "reporting",
                                       !.messages = Append(@, "Final report generated")]
       IN  IF ShouldIterate(st) = "complete"
           THEN /\ ConcFrame
                /\ conc' = [conc EXCEPT !.pc[s] = "returned",
                                        !.state[s] = st,
                                        !.history = Append(@, CompletedResult(st))]
           ELSE ConcStep(s, "iterator", st)

\* with max_iterations = 0 the iterator is always at the ceiling
ConcIterating(s) ==
    /\ conc.pc[s] = "iterator"
    /\ CeilingReached(conc.state[s])
    /\ ConcStep(s, Edge("iterator"),
                [conc.state[s] EXCEPT !.research_complete = TRUE,
                                      !.current_phase = "reporting"])

ConcInit ==
    /\ Init
    /\ llm = "ChatOpenAI"

ConcNext ==
    \E s \in Sessions :
        \/ ConcConductResearch(s)
        \/ ConcPlanning(s)
        \/ ConcSearching(s)
        \/ ConcAnalyzingCall(s)
        \/ ConcAnalyzingReturn(s)
        \/ ConcSynthesizing(s)
        \/ ConcReporting(s)
        \/ ConcIterating(s)

ConcSpec == ConcInit /\ [][ConcNext]_vars

------------------------------------------------------------------------------
(* DeepResearchSystem                                                        *)
(* (src/The-AI-Engineer-Challenge/03_End-to-End_RAG/deep_research_system.py) *)
(* conduct_research runs five phases in a fixed order inside one try block.  *)
(* drs.task[c] is the ResearchTask object of call c; active_research maps a  *)
(* research id to the task object stored under it, research_history lists    *)
(* task objects.  Each phase has one await, then its writes to the task, so  *)
(* a phase is one step; the code of conduct_research before the first await  *)
(* (id, task, active_research entry) is one step as well.                    *)

DrsPhaseOrder == <<"planning", "searching", "analyzing", "synthesizing", "reporting">>

\* f"research_{datetime.now().strftime('%Y%m%d_%H%M%S')}": the clock, to the second
DefaultResearchId(clock) == <<"research_", clock>>

\* a research_id the caller passes; callers pass different ids
GivenResearchId(c) == <<"given_", c>>

\* what client.chat.completions.create can do: return content json.loads
\* accepts, return content it rejects, or raise
DrsResponses ==
    { [out |-> "text"], [out |-> "unparsable"] }
    \cup { [out |-> "raise", msg |-> m] : m \in ErrMsgs }

DrsParseWithFallback(resp) ==
    CASE resp.out = "raise" -> Raised(OracleError(resp.msg))
      [] OTHER -> Returned(resp.out)

\* json.loads(response.choices[0].message.content), with no except around it
DrsParse(resp) ==
    CASE resp.out = "raise" -> Raised(OracleError(resp.msg))
      [] resp.out = "unparsable" -> Raised(JSONDecodeError)
      [] OTHER -> Returned(resp.out)

\* _simulate_web_search(query) of DeepResearchSystem: three mock results
DrsSimulateWebSearch(query) ==
    [t \in 1..3 |->
        [title |-> <<TitlePrefix[t]>> \o query,
         content |-> query,
         relevance_score |-> BaseScore[t],
         source_type |-> SourceTypes[t]]]

\* get_research_status(research_id)
GetResearchStatus(research_id) ==
    IF research_id \notin DOMAIN drs.active_research
    THEN [found |-> FALSE]
    ELSE LET task == drs.task[drs.active_research[research_id]]
         IN  [found |-> TRUE,
              research_id |-> research_id,
              query |-> task.query,
              phase |-> task.phase,
              status |-> task.status,
              sources_count |-> Len(task.sources),
              findings_count |-> Len(task.findings)]

\* a step of DrsSpec touches only drs
DrsFrame ==
    UNCHANGED <<llm, vectorstore, research_history, pc, state, result, exc, runs, last,
                decisions, oracle, conc, guard>>

\* the wall clock reaches the next second
DrsTick ==
    /\ drs.clock < MaxClock
    /\ drs' = [drs EXCEPT !.clock = @ + 1]
    /\ DrsFrame

\* conduct_research(query, research_id) up to the first await
DrsConductResearch(c) ==
    /\ drs.pc[c] = "idle"
    /\ DrsFrame
    /\ \E query \in Queries, given \in BOOLEAN :
          LET research_id == IF given THEN GivenResearchId(c)
                                      ELSE DefaultResearchId(drs.clock)
              research_task == [id |-> research_id, query |-> query, phase |-> "planning",
                                sources |-> <<>>, findings |-> <<>>, status |-> "pending"]
          IN  drs' = [drs EXCEPT
                        !.task[c] = research_task,
                        !.active_research = SetKey(@, research_id, c),
                        !.pc[c] = "planning"]

\* except Exception as e in conduct_research
DrsFail(c, e, resp) ==
    drs' = [drs EXCEPT
              !.task[c].status = "failed",
              !.pc[c] = "returned",
              !.exc[c] = e,
              !.last[c] = Outcome(resp),
              !.result[c] = [research_id |-> drs.task[c].id,
                             query |-> drs.task[c].query,
                             status |-> "failed",
                             error |-> e.msg]]

\* a phase that parses the Oracle's answer as JSON: _planning_phase,
\* _analyzing_phase, _synthesizing_phase
DrsJsonPhase(c, phase, finding, next) ==
    /\ drs.pc[c] = phase
    /\ DrsFrame
    /\ \E resp \in DrsResponses :
          LET t == DrsParse(resp) IN
          IF t.raised
          THEN DrsFail(c, t.exc, resp)
          ELSE drs' = [drs EXCEPT
                         !.task[c].findings = Append(@, finding),
                         !.task[c].phase = next,
                         !.pc[c] = next,
                         !.last[c] = Outcome(resp)]

DrsPlanningPhase(c) == DrsJsonPhase(c, "planning", "Research Plan", "searching")

DrsSearchingPhase(c) ==
    /\ drs.pc[c] = "searching"
    /\ DrsFrame
    /\ drs' = [drs EXCEPT
                 !.task[c].sources = @ \o DrsSimulateWebSearch(drs.task[c].query),
                 !.task[c].phase = "analyzing",
                 !.pc[c] = "analyzing"]

DrsAnalyzingPhase(c) == DrsJsonPhase(c, "analyzing", "Analysis", "synthesizing")

DrsSynthesizingPhase(c) == DrsJsonPhase(c, "synthesizing", "Synthesis", "reporting")

\* _reporting_phase and the completion of conduct_research; the report is
\* the Oracle's text, whatever it is
DrsReportingPhase(c) ==
    /\ drs.pc[c] = "reporting"
    /\ DrsFrame
    /\ \E resp \in { r \in DrsResponses : r.out # "unparsable" } :
          IF resp.out = "raise"
          THEN DrsFail(c, OracleError(resp.msg), resp)
          ELSE drs' = [drs EXCEPT
                         !.task[c].findings = Append(@, "Final Report"),
                         !.task[c].status = "completed",
                         !.research_history = Append(@, c),
                         !.pc[c] = "returned",
                         !.last[c] = Outcome(resp),
                         !.result[c] = [research_id |-> drs.task[c].id,
                                        query |-> drs.task[c].query,
                                        status |-> "completed",
                                        report |-> <<"report">>,
                                        sources |-> drs.task[c].sources,
                                        findings |-> Append(drs.task[c].findings,
                                                            "Final Report")]]

DrsInit ==
    /\ Init
    /\ llm = "ChatOpenAI"
    /\ research_history = <<>>

DrsNext ==
    \/ DrsTick
    \/ \E c \in DrsCalls :
          \/ DrsConductResearch(c)
          \/ DrsPlanningPhase(c)
          \/ DrsSearchingPhase(c)
          \/ DrsAnalyzingPhase(c)
          \/ DrsSynthesizingPhase(c)
          \/ DrsReportingPhase(c)

DrsSpec == DrsInit /\ [][DrsNext]_vars

------------------------------------------------------------------------------
(* Guardrailed agent                                                         *)
(* (src/16_Production_RAG_and_Guardrails/guardrails_agent_implementation.py) *)
(* One app.invoke of the graph built by create_guardrailed_agent:            *)
(*   input_validation -(passed)-> agent -> output_validation -> END          *)
(*   input_validation -(failed)-> handle_input_failure -> END                *)
(*   output_validation -(failed)-> handle_output_failure -> END              *)
(* guard.state is the AgentState; its messages channel has the reducer       *)
(* operator.add, so the messages a node returns are appended to the ones the *)
(* state holds.  guard.path lists the nodes run so far and guard.recorded    *)
(* the failures input_validation_node collected.  What a guard (topic,       *)
(* jailbreak, PII, profanity) finds in a text is the guard's own affair:     *)
(* every outcome its validate call has is possible for every text.           *)

GuardQueries ==
    { <<"loans">>, <<"crypto">>, <<"loans", "ssn">>, <<"ignore previous instructions">> }

\* str(e) of a guard's validation exception
GuardErrMsgs == { <<"validation failed">>, <<"invalid topic">> }

HumanMessage(content) == [type |-> "human", content |-> content]
AIMessage(content) == [type |-> "ai", content |-> content]

\* text[:n]
Take(text, n) == SubSeq(text, 1, Min(n, Len(text)))

\* what GuardrailsPII with on_fail="fix" leaves of a text
Redact(text) == [i \in 1..Len(text) |-> IF text[i] = "ssn" THEN "<SSN>" ELSE text[i]]

\* the state after a node returned `update`: operator.add on messages, the
\* other keys replaced
Reduce(old, update) == [update EXCEPT !.messages = old.messages \o update.messages]

\* "\n".join(f"- {f}" for f in failures)
JoinFailures(failures) ==
    LET F[i \in 0..Len(failures)] ==
            IF i = 0 THEN <<>> ELSE F[i - 1] \o <<"- ">> \o failures[i]
    IN  F[Len(failures)]

\* error_message of handle_input_failure_node
InputRefusal(failures) ==
    <<"I apologize, but I cannot process your request due to the following reasons:">>
        \o JoinFailures(failures)
        \o <<"Please rephrase your question to focus on student loans">>

\* error_message of handle_output_failure_node
OutputRefusal == <<"I apologize, but I need to refine my response.">>

\* the response agent_node builds
AgentResponse(last_message) ==
    <<"I understand you're asking about: ">>
        \o Take(last_message.content, AgentEchoLimit)
        \o <<"Let me help you with that student loan question.">>

\* topic_guard.validate (on_fail="exception"): passes or raises
TopicOutcomes == { [out |-> "pass"] } \cup { [out |-> "raise", msg |-> m] : m \in GuardErrMsgs }

\* jailbreak_guard.validate: a result with validation_passed true or false, or raises
JailbreakOutcomes ==
    { [out |-> "pass"], [out |-> "notpassed"] }
    \cup { [out |-> "raise", msg |-> m] : m \in GuardErrMsgs }

\* a PII guard's validate (on_fail="fix"): the text as it is, the text
\* redacted, or raises
PiiOutcomes == { "same", "redacted", "raise" }

\* output_profanity_guard.validate (on_fail="exception")
ProfanityOutcomes == { [out |-> "pass"] } \cup { [out |-> "raise", msg |-> m] : m \in GuardErrMsgs }

\* the failures list input_validation_node builds
InputFailures(topic, jailbreak) ==
    (IF topic.out = "raise"
     THEN << <<"Topic restriction: ">> \o Take(topic.msg, FailureTextLimit) >>
     ELSE <<>>)
    \o (CASE jailbreak.out = "notpassed" -> << <<"Jailbreak attempt detected">> >>
          [] jailbreak.out = "raise" ->
                << <<"Jailbreak detection: ">> \o Take(jailbreak.msg, FailureTextLimit) >>
          [] OTHER -> <<>>)

\* validated_output of a PII guard call
PiiValidated(text, pii) == IF pii = "redacted" THEN Redact(text) ELSE text

ShouldContinueAfterInputValidationAlwaysAgent(st) == "agent"

\* should_continue_after_input_validation
ShouldContinueAfterInputValidation(st) ==
    IF st.input_validation_passed THEN "agent" ELSE "handle_input_failure"

\* should_continue_after_output_validation
ShouldContinueAfterOutputValidation(st) ==
    IF st.output_validation_passed THEN "end" ELSE "handle_output_failure"

\* a step of GuardSpec touches only guard
GuardFrame ==
    UNCHANGED <<llm, vectorstore, research_history, pc, state, result, exc, runs, last,
                decisions, oracle, conc, drs>>

\* node `node` returned `update` and the graph goes on to `next`
GuardStep(node, update, next) ==
    /\ GuardFrame
    /\ guard' = [guard EXCEPT !.state = Reduce(guard.state, update),
                              !.path = Append(@, node),
                              !.pc = next]

\* app.invoke(initial_state): the graph starts at its entry point
GuardInvoke ==
    /\ guard.pc = "idle"
    /\ GuardFrame
    /\ \E query \in GuardQueries :
          guard' = [guard EXCEPT !.state.messages = << HumanMessage(query) >>,
                                !.pc = "input_validation"]

InputValidationNode ==
    /\ guard.pc = "input_validation"
    /\ \E topic \in TopicOutcomes, jailbreak \in JailbreakOutcomes, pii \in PiiOutcomes :
          LET st == guard.state
              user_input == st.messages[Len(st.messages)].content
              failures == InputFailures(topic, jailbreak)
              validated_input == PiiValidated(user_input, pii)
              input_valid == Len(failures) = 0
              update ==
                  IF input_valid /\ validated_input # user_input
                  THEN [st EXCEPT
                          !.messages = SubSeq(st.messages, 1, Len(st.messages) - 1)
                                           \o << HumanMessage(validated_input) >>,
                          !.input_validation_passed = TRUE,
                          !.guard_failures = <<>>]
                  ELSE [st EXCEPT !.input_validation_passed = input_valid,
                                  !.guard_failures = failures]
          IN  /\ GuardFrame
              /\ guard' = [guard EXCEPT
                             !.state = Reduce(st, update),
                             !.path = Append(@, "input_validation"),
                             !.recorded = failures,
                             !.pc = ShouldContinueAfterInputValidation(Reduce(st, update))]

AgentNode ==
    /\ guard.pc = "agent"
    /\ LET st == guard.state
           response == AIMessage(AgentResponse(st.messages[Len(st.messages)]))
       IN  GuardStep("agent",
                     [st EXCEPT !.messages = << response >>,
                                !.loop_count = st.loop_count + 1],
                     "output_validation")

OutputValidationNode ==
    /\ guard.pc = "output_validation"
    /\ LET st == guard.state
           last_message == st.messages[Len(st.messages)]
       IN  IF last_message.type # "ai"
           THEN LET update == [st EXCEPT !.output_validation_passed = TRUE]
                IN  GuardStep("output_validation", update,
                              ShouldContinueAfterOutputValidation(Reduce(st, update)))
           ELSE \E profanity \in ProfanityOutcomes, pii \in PiiOutcomes :
                  LET agent_output == last_message.content
                      failures ==
                          IF profanity.out = "raise"
                          THEN << <<"Profanity detected: ">>
                                     \o Take(profanity.msg, FailureTextLimit) >>
                          ELSE <<>>
                      validated_output == PiiValidated(agent_output, pii)
                      output_valid == Len(failures) = 0
                      update ==
                          IF output_valid /\ validated_output # agent_output
                          THEN [st EXCEPT
                                  !.messages = SubSeq(st.messages, 1, Len(st.messages) - 1)
                                                   \o << AIMessage(validated_output) >>,
                                  !.output_validation_passed = TRUE,
                                  !.guard_failures = <<>>]
                          ELSE [st EXCEPT !.output_validation_passed = output_valid,
                                          !.guard_failures = st.guard_failures \o failures]
                  IN  GuardStep("output_validation", update,
                                ShouldContinueAfterOutputValidation(Reduce(st, update)))

HandleInputFailureNode ==
    /\ guard.pc = "handle_input_failure"
    /\ GuardStep("handle_input_failure",
                 [guard.state EXCEPT
                     !.messages = << AIMessage(InputRefusal(guard.state.guard_failures)) >>],
                 "end")

HandleOutputFailureNode ==
    /\ guard.pc = "handle_output_failure"
    /\ GuardStep("handle_output_failure",
                 [guard.state EXCEPT !.messages = << AIMessage(OutputRefusal) >>],
                 "end")

GuardInit ==
    /\ Init
    /\ llm = "ChatOpenAI"
    /\ research_history = <<>>

GuardNext ==
    \/ GuardInvoke
    \/ InputValidationNode
    \/ AgentNode
    \/ OutputValidationNode
    \/ HandleInputFailureNode
    \/ HandleOutputFailureNode

GuardSpec == GuardInit /\ [][GuardNext]_vars

------------------------------------------------------------------------------
(* Properties *)

Completed == pc = "returned" /\ result.status = "completed"
Failed == pc = "returned" /\ result.status = "failed"

RoundNodes == {"searcher", "analyzer", "synthesizer", "reporter"}
FallbackNodes == {"planner", "analyzer", "synthesizer", "iterator"}

\* C1: in every state of a session 0 <= iteration_count <= max_iterations,
\* whatever the Oracle answers at Iterate-Decide, and the iteration_count of
\* the returned result is at most max_iterations.
C1_IterationCeiling ==
    pc # "idle" =>
        /\ 0 <= state.iteration_count
        /\ state.iteration_count <= state.max_iterations
        /\ (Completed => result.iteration_count <= state.max_iterations)

\* Iterate-Decide has just counted the last allowed iteration on an Oracle
\* answer asking for more.
C1_Witness ==
    /\ pc = "searcher"
    /\ last["iterator"] = "more"
    /\ state.max_iterations >= 1
    /\ state.iteration_count = state.max_iterations

\* C2: when every Oracle answer at Iterate-Decide is needs_more_research=true,
\* a session that returns a result returns iteration_count = max_iterations.
C2_AlwaysMoreEndsAtCeiling ==
    (Completed /\ decisions \subseteq {"more", "ceiling"}) =>
        result.iteration_count = state.max_iterations

\* The Oracle asked for more at every call and the session returned.
C2_Witness ==
    /\ Completed
    /\ decisions = {"more", "ceiling"}
    /\ runs["iterator"] = state.max_iterations + 1
    /\ state.max_iterations >= 2

\* C3: when every Oracle answer at Iterate-Decide is needs_more_research=false
\* and max_iterations >= 1, each of Search, Analyze, Synthesize, Report has
\* run exactly once when the session returns.
C3_OneRoundWhenOracleSaysStop ==
    (Completed /\ state.max_iterations >= 1 /\ decisions = {"stop"}) =>
        \A n \in RoundNodes : runs[n] = 1

\* C4: the Search node runs at most max_iterations + 1 times in a session
\* (the back-edge into Search is taken at most max_iterations times).
C4_SearchRunsBounded ==
    pc # "idle" => runs["searcher"] <= state.max_iterations + 1

\* a bound on the nodes still to run, from the position in the graph and the
\* Iterate-Decide executions still possible
PosRank(p) ==
    CASE p = "idle" -> (5 * MaxIter) + 7
      [] p = "planner" -> 6
      [] p = "searcher" -> 5
      [] p = "analyzer" -> 4
      [] p = "synthesizer" -> 3
      [] p = "reporter" -> 2
      [] p = "iterator" -> 1
      [] OTHER -> 0

IterationsLeft ==
    IF state.research_complete \/ pc \in {"returned", "propagated"}
    THEN 0
    ELSE (state.max_iterations - state.iteration_count) + 1

Rank == (5 * IterationsLeft) + PosRank(pc)

\* C5: every session terminates: conduct_research eventually returns, for
\* every max_iterations and every sequence of Oracle answers; each step of
\* the graph lowers a non-negative bound on the nodes still to run.
C5_Termination ==
    /\ <>(pc = "returned")
    /\ [](Rank >= 0)
    /\ [][Rank' < Rank]_vars

\* A session that ran the most rounds the ceiling allows has returned.
C5_Witness ==
    /\ pc = "returned"
    /\ state.max_iterations = MaxIter
    /\ runs["searcher"] = MaxIter + 2

\* the answers a node's fallback is written for: a JSON object, or text that
\* json.loads rejects
TextOnly(n) == last[n] \in {"none", "ok", "bad", "more", "stop", "ceiling"}

\* C6: unparsable Oracle text at Plan, Analyze or Synthesize never fails the
\* session: when the Oracle answered every call of these nodes (and of
\* Iterate-Decide) with text that is a JSON object or unparsable, and the
\* vector store answered, no exception leaves conduct_research and the
\* returned status is "completed".
C6_MalformedJsonCompletes ==
    /\ pc # "propagated"
    /\ (pc = "returned" /\ llm # "None" /\ last["searcher"] \in {"none", "ok"}
          /\ \A n \in FallbackNodes : TextOnly(n))
         => result.status = "completed"

\* Plan, Analyze and Synthesize all fell back on unparsable text and the
\* session completed.
C6_Witness ==
    /\ Completed
    /\ last["planner"] = "bad"
    /\ last["analyzer"] = "bad"
    /\ last["synthesizer"] = "bad"
    /\ result.research_plan = DefaultPlan(state.query)
    /\ result.analysis_results = DefaultAnalysis
    /\ result.synthesis = DefaultSynthesis

\* C7: when the Oracle call of the (last) Report raised, the returned status
\* is "failed", never "completed".
C7_ReportFailureFailsSession ==
    (pc = "returned" /\ last["reporter"] = "raise") => result.status = "failed"

\* C8: an Oracle call that raises at Plan, Analyze, Synthesize or
\* Iterate-Decide does not end the session as failed.
C8_OracleRaiseRecovered ==
    (\E n \in FallbackNodes : last[n] = "raise") =>
        ~(Failed /\ exc.type = "OracleError")

C10_CompletedReportNonEmpty ==
    Completed => result.final_report # <<>>

\* C11: once research_complete is true no node runs again and the
\* ResearchState is not changed any more; the only step left is the return.
C11_FrozenOnceComplete ==
    [][(pc # "idle" /\ state.research_complete) =>
          (state' = state /\ runs' = runs /\ pc' = "returned")]_vars

\* C12: every Search step appends its results to search_results.
C12_SearchAppends ==
    [][(pc = "searcher" /\ last'["searcher"] = "ok") =>
          state'.search_results =
              state.search_results \o SimulateWebSearch(state.query, state.research_plan)]_vars

\* C13: in a session the length of search_results never decreases, from one
\* round to the next and in every step between.
C13_DocumentsNeverShrink ==
    [][pc # "idle" => Len(state'.search_results) >= Len(state.search_results)]_vars

\* A second Search round has run on a plan that Iterate-Decide extended.
C13_Witness ==
    /\ pc = "analyzer"
    /\ runs["searcher"] = 2
    /\ Len(state.search_results) > 0
    /\ "additional_queries" \in DOMAIN state.research_plan

\* what Iterate-Decide leaves when the Oracle answers needs_more_research=false
StopState(st) ==
    [st EXCEPT !.iteration_count = st.iteration_count + 1,
               !.current_phase = "iterating",
               !.research_complete = TRUE,
               !.messages = Append(@, "Research iteration complete")]

\* C14: on an Oracle answer that json.loads rejects, Iterate-Decide does
\* what it does on needs_more_research=false: it sets research_complete,
\* adds no query to the plan, and is not entered again in the session.
C14_UnparsableDecisionStops ==
    /\ [][(pc = "iterator" /\ last'["iterator"] = "bad") =>
             (state' = StopState(state) /\ state'.research_complete)]_vars
    /\ [][last["iterator"] = "bad" =>
             (runs'["iterator"] = runs["iterator"] /\ state'.research_complete)]_vars

\* Iterate-Decide got unparsable text while iterations were still allowed.
C14_Witness ==
    /\ pc = "searcher"
    /\ last["iterator"] = "bad"
    /\ state.research_complete
    /\ state.iteration_count < state.max_iterations

\* C15: entered with iteration_count >= max_iterations, Iterate-Decide sets
\* research_complete and returns: it makes no Oracle call and leaves
\* iteration_count as it is.
C15_CeilingBeforeOracle ==
    [][(pc = "iterator" /\ state.iteration_count >= state.max_iterations) =>
          /\ oracle' = oracle
          /\ state'.iteration_count = state.iteration_count
          /\ state'.research_complete
          /\ pc' = "searcher"]_vars

\* Iterate-Decide returned at the ceiling; the last Oracle call is still the
\* reporter's.
C15_Witness ==
    /\ pc = "searcher"
    /\ last["iterator"] = "ceiling"
    /\ state.research_complete
    /\ state.iteration_count = state.max_iterations
    /\ "text" \in DOMAIN oracle.resp

\* C17: the final_report of a completed session is the text the Oracle
\* returned at the last Report call, and with max_iterations = 1 the returned
\* iteration_count is 1.
C17_ReportVerbatim ==
    Completed =>
        /\ (oracle.resp.out = "text" => result.final_report = oracle.resp.text)
        /\ (state.max_iterations = 1 => result.iteration_count = 1)

\* A session with max_iterations = 1 completed with the Oracle's report.
C17_Witness ==
    /\ Completed
    /\ state.max_iterations = 1
    /\ oracle.resp.out = "text"
    /\ result.final_report = <<"report">>
    /\ result.iteration_count = 1

\* C18: a vector store that raises during Search or Analyze does not end the
\* session as failed.
C18_StoreFailureTolerated ==
    (last["searcher"] = "storefail" \/ last["analyzer"] = "storefail") =>
        ~(Failed /\ exc.type = "StoreError")

\* C19: Plan runs once and before every other node; in each round Search,
\* Analyze, Synthesize, Report run in this order, none skipped or repeated;
\* Iterate-Decide runs only directly after a Report.
C19_FixedOrder ==
    LET p == runs["planner"]
        s == runs["searcher"]
        a == runs["analyzer"]
        y == runs["synthesizer"]
        r == runs["reporter"]
        i == runs["iterator"]
    IN  /\ p <= 1
        /\ (pc \in {"idle", "planner"} => (s = 0 /\ a = 0 /\ y = 0 /\ r = 0 /\ i = 0))
        /\ (pc = "idle" => p = 0)
        /\ (pc \notin {"idle", "planner"} => p = 1)
        /\ (s >= a /\ a >= y /\ y >= r /\ r >= i /\ i >= s - 1)
        /\ (pc = "searcher" => (s = i /\ r = i))
        /\ (pc = "analyzer" => (s = a + 1 /\ a = i))
        /\ (pc = "synthesizer" => (a = y + 1 /\ s = a /\ y = i))
        /\ (pc = "reporter" => (y = r + 1 /\ s = y /\ r = i))
        /\ (pc = "iterator" => (r = i + 1 /\ s = r /\ state.current_phase = "reporting"))

\* The second round has reached its Report.
C19_Witness ==
    /\ pc = "reporter"
    /\ runs["reporter"] = 1
    /\ runs["iterator"] = 1
    /\ runs["synthesizer"] = 2

\* C20: when the decision is to stop (needs_more_research=false or a parse
\* failure) Iterate-Decide sets research_complete and leaves iteration_count
\* unchanged.
C20_StopLeavesCount ==
    [][(pc = "iterator" /\ last'["iterator"] \in {"stop", "bad"}) =>
          (state'.research_complete /\ state'.iteration_count = state.iteration_count)]_vars

\* C16: what a session's Analyze node passes to the Oracle while another
\* session runs on the same orchestrator is what it could pass when running
\* alone: its relevant_docs are a retrieval over the documents the session
\* itself has stored.
C16_SessionsShareNoState ==
    \A s \in Sessions :
        conc.pc[s] = "analyzer_await" =>
            conc.analysis_input[s][1].relevant_docs \in Retrievals(OwnDocs(s), RetrieverK)

\* C21: when the Oracle's Plan answer is not parsable JSON the Plan node
\* stores the default plan, whose sub_questions is the one-element list
\* [query], and the session goes on to Search.
C21_DefaultPlanOnBadJson ==
    [][(pc = "planner" /\ last'["planner"] = "bad") =>
          /\ state'.research_plan = DefaultPlan(state.query)
          /\ state'.research_plan.sub_questions = << state.query >>
          /\ pc' = "searcher"
          /\ exc' = NoExc]_vars

\* Plan fell back on the default plan for a non-empty query and Search is next.
C21_Witness ==
    /\ pc = "searcher"
    /\ runs["searcher"] = 0
    /\ last["planner"] = "bad"
    /\ state.query = <<"q">>
    /\ state.research_plan.sub_questions = << <<"q">> >>

\* C22: Plan, Search, Analyze, Synthesize and Report leave iteration_count
\* and research_complete unchanged, and no node changes query or
\* max_iterations.
C22_OnlyIterateWritesControl ==
    [][/\ (pc \in Nodes \ {"iterator"} =>
              /\ state'.iteration_count = state.iteration_count
              /\ state'.research_complete = state.research_complete)
       /\ (pc \in Nodes =>
              /\ state'.query = state.query
              /\ state'.max_iterations = state.max_iterations)]_vars

\* A later round's Report has run with the counter at 1 and the flag unset.
C22_Witness ==
    /\ pc = "iterator"
    /\ runs["reporter"] = 2
    /\ state.iteration_count = 1
    /\ ~state.research_complete
    /\ state.query = <<"q">>

\* C23: a node that raises leaves the ResearchState as the last completed
\* phase left it: no partially applied update is visible.
C23_AtomicCommit ==
    [][(pc \in Nodes /\ exc' # NoExc) => state' = state]_vars

\* C24: a session whose query is the empty string never raises out of
\* conduct_research; its fallback plan has sub_questions = [""]; and when
\* the Oracle and the vector store answer, every phase runs and the result
\* is "completed".
C24_EmptyQueryCompletes ==
    (pc # "idle" /\ state.query = <<>>) =>
        /\ pc # "propagated"
        /\ (last["planner"] = "bad" => state.research_plan.sub_questions = << <<>> >>)
        /\ (pc = "returned" /\ llm # "None" /\ last["searcher"] \in {"none", "ok"}
              /\ \A n \in FallbackNodes : TextOnly(n))
             => /\ result.status = "completed"
                /\ result.query = <<>>
                /\ \A n \in Nodes \ {"iterator"} : runs[n] >= 1

\* The empty query completed on the fallback plan, with the three mock
\* results of its one sub-question "".
C24_Witness ==
    /\ Completed
    /\ state.query = <<>>
    /\ last["planner"] = "bad"
    /\ result.research_plan.sub_questions = << <<>> >>
    /\ Len(result.search_results) = 3

\* conduct_research returns in this step
Returns == pc # "returned" /\ pc' = "returned"

\* C25: research_history is append-only: a call that returns "completed"
\* appends its result as the one new last entry, a call that returns
\* "failed" and every other step leave research_history unchanged.
C25_HistoryAppendOnly ==
    [][/\ (Returns /\ result'.status = "completed" =>
              research_history' = Append(research_history, result'))
       /\ (Returns /\ result'.status = "failed" =>
              research_history' = research_history)
       /\ (~Returns => research_history' = research_history)]_vars

\* A session completed on an orchestrator whose history already held a result.
C25_Witness ==
    /\ Completed
    /\ Len(research_history) = 2
    /\ research_history[1] = PriorResult
    /\ research_history[2] = result

\* C26: the iterator never routes to END: from it the graph goes to the
\* searcher (unless an exception ends the session), also when it has just
\* set research_complete; a completed session has run Search, Analyze,
\* Synthesize and Report each once more than Iterate-Decide, and at least once
\* after the iterator set research_complete.
C26_ClosingRoundAfterIterator ==
    /\ [][pc = "iterator" => (pc' = "searcher" \/ exc' # NoExc)]_vars
    /\ [][(pc = "iterator" /\ state'.research_complete) =>
             (pc' = "searcher" /\ runs'["searcher"] = runs'["iterator"])]_vars
    /\ [](Completed =>
             /\ runs["iterator"] >= 1
             /\ \A n \in RoundNodes : runs[n] = runs["iterator"] + 1)

\* The Oracle said stop at the first Iterate-Decide and the session still
\* ran a second round before it completed.
C26_Witness ==
    /\ Completed
    /\ decisions = {"stop"}
    /\ runs["iterator"] = 1
    /\ runs["searcher"] = 2

\* the sub-questions Search reads from the plan
SubQuestions(st) == Get(st.research_plan, "sub_questions", << st.query >>)

\* C27: additional_queries never influence a Search: no node after Plan
\* changes the plan's sub_questions, and every Search round after the first
\* yields the search_results of the round before.
C27_AdditionalQueriesUnused ==
    /\ [][(pc \in Nodes \ {"planner"} /\ IsDict(state.research_plan)) =>
             /\ IsDict(state'.research_plan)
             /\ SubQuestions(state') = SubQuestions(state)]_vars
    /\ [][(pc = "searcher" /\ runs["searcher"] >= 1 /\ last'["searcher"] = "ok") =>
             state'.search_results = state.search_results]_vars

\* A Search round ran after Iterate-Decide had put additional queries into
\* the plan.
C27_Witness ==
    /\ pc = "synthesizer"
    /\ runs["searcher"] = 2
    /\ last["iterator"] = "more"
    /\ Get(state.research_plan, "additional_queries", <<>>) = << <<"x">> >>
    /\ Len(state.search_results) = 0

\* C28: in DeepResearchSystem.conduct_research, when a phase raises (the
\* Oracle call raises, or json.loads rejects its answer at planning,
\* analyzing or synthesizing) the call returns status "failed" with the
\* error of the exception, task.status becomes "failed", task.phase stays at
\* the phase that raised, no later phase runs, and research_history and
\* active_research are left as they were.
C28_PhaseFailureFailsCall ==
    /\ [](\A c \in DrsCalls :
            /\ (drs.last[c] \in {"bad", "raise"} =>
                  /\ drs.pc[c] = "returned"
                  /\ drs.result[c].status = "failed"
                  /\ drs.exc[c] # NoExc)
            /\ (drs.exc[c] # NoExc =>
                  /\ drs.pc[c] = "returned"
                  /\ drs.result[c].status = "failed"
                  /\ drs.result[c].error = drs.exc[c].msg
                  /\ drs.task[c].status = "failed"))
    /\ [][\A c \in DrsCalls :
            (drs.exc[c] = NoExc /\ drs'.exc[c] # NoExc) =>
                /\ drs'.task[c].phase = drs.pc[c]
                /\ drs'.task[c] = [drs.task[c] EXCEPT !.status = "failed"]
                /\ drs'.research_history = drs.research_history
                /\ drs'.active_research = drs.active_research]_vars
    /\ [][\A c \in DrsCalls : drs.pc[c] = "returned" => drs'.task[c] = drs.task[c]]_vars

\* The Oracle's analysis was not JSON: the call failed in the analyzing
\* phase, its task is still the one stored under its id, and the history is
\* empty.
C28_Witness ==
    \E c \in DrsCalls :
        /\ drs.pc[c] = "returned"
        /\ drs.last[c] = "bad"
        /\ drs.exc[c] = JSONDecodeError
        /\ drs.task[c].phase = "analyzing"
        /\ drs.task[c].status = "failed"
        /\ GetResearchStatus(drs.task[c].id).status = "failed"
        /\ drs.research_history = <<>>

\* what get_research_status reports for the task of call c
StatusOfCall(c) ==
    [found |-> TRUE,
     research_id |-> drs.task[c].id,
     query |-> drs.task[c].query,
     phase |-> drs.task[c].phase,
     status |-> drs.task[c].status,
     sources_count |-> Len(drs.task[c].sources),
     findings_count |-> Len(drs.task[c].findings)]

\* C29: concurrent conduct_research calls never overwrite each other's
\* active_research entry: for every call that has started,
\* get_research_status of its id reports the query, phase and status of its
\* own task.
C29_StatusOfOwnSession ==
    \A c \in DrsCalls :
        drs.pc[c] # "idle" => GetResearchStatus(drs.task[c].id) = StatusOfCall(c)

\* how often the agent node has run
AgentRuns == Len(SelectSeq(guard.path, LAMBDA n : n = "agent"))

\* C30: in a run of the guardrailed agent graph whose input validation
\* recorded a failure (topic restriction or jailbreak) the agent node never
\* executes: the run goes input_validation, handle_input_failure, END, its
\* final message is the refusal that lists the recorded failures, and
\* loop_count stays 0; in every run the agent node executes at most once.
C30_NoAgentAfterInputFailure ==
    /\ AgentRuns <= 1
    /\ guard.state.loop_count = AgentRuns
    /\ (guard.recorded # <<>> =>
          /\ AgentRuns = 0
          /\ guard.state.loop_count = 0
          /\ ~guard.state.input_validation_passed
          /\ guard.pc \in {"handle_input_failure", "end"}
          /\ (guard.pc = "handle_input_failure" => guard.path = <<"input_validation">>)
          /\ (guard.pc = "end" =>
                /\ guard.path = <<"input_validation", "handle_input_failure">>
                /\ guard.state.messages[Len(guard.state.messages)]
                      = AIMessage(InputRefusal(guard.recorded))))

\* A query failed both the topic and the jailbreak check and the run ended
\* with the refusal.
C30_Witness ==
    /\ guard.pc = "end"
    /\ Len(guard.recorded) = 2
    /\ guard.path = <<"input_validation", "handle_input_failure">>
    /\ guard.state.messages[Len(guard.state.messages)].type = "ai"
    /\ guard.state.loop_count = 0

====
